---- MODULE Spec2Model ----
(***************************************************************************)
(* Model of lib/utils.js of node-freshdesk-api: one invocation of          *)
(* makeRequest(method, auth, url, qs, data, cb), from the construction of  *)
(* the request options to the outcome(s) delivered to the callback.        *)
(*                                                                         *)
(* Every await of the async function is a step boundary; the code between  *)
(* two awaits is one action.  The transport (undici's request) and the     *)
(* callback are the environment: the transport either rejects or resolves  *)
(* with a response, a response body stream either parses as JSON or makes  *)
(* body.json() reject with a SyntaxError, and the callback either returns  *)
(* or throws.                                                              *)
(***************************************************************************)
EXTENDS Integers, Sequences, FiniteSets, TLC

\* Longest array held by a field of the request data.
MaxLen == 2
\* Callback invocations (1..MaxCalls) on which the callback may throw.
MaxCalls == 2

VARIABLES
    pc,           \* position in makeRequest: "start", "awaitRequest", "awaitJson", "done"
    method,       \* argument method
    auth,         \* argument auth
    url,          \* argument url
    qs,           \* argument qs
    data,         \* argument data
    cbThrowsOn,   \* the invocations of cb (by number) on which cb throws
    cbException,  \* what cb throws when it throws
    options,      \* the options object handed to undici's request
    req,          \* the req object handed to the response handler
    sent,         \* number of times request(url, options) was called
    response,     \* the response request() resolved with, if any
    transportError, \* the error request() rejected with, if any
    handled,      \* log of the response handler's invocations
    calls,        \* the invocations of cb, in order, each with its arguments
    raised        \* the exception makeRequest's promise rejected with, if any

args == <<method, auth, url, qs, data>>
vars == <<pc, method, auth, url, qs, data, cbThrowsOn, cbException, options, req,
          sent, response, transportError, handled, calls, raised>>

----------------------------------------------------------------------------
(* JavaScript values *)

Undefined == [type |-> "undefined"]
Null      == [type |-> "null"]
Str(s)    == [type |-> "string", val |-> s]
\* an array of strings, as undici gives for a header sent more than once
StrArray(s) == [type |-> "object", val |-> s]

TypeOf(v) == v.type

\* ToBoolean of the values the model holds
Truthy(v) ==
    CASE v.type = "undefined" -> FALSE
      [] v.type = "null"      -> FALSE
      [] v.type = "string"    -> v.val # ""
      [] OTHER                -> TRUE

NoThrow == [type |-> "none"]
NoCall  == [argc |-> 0]

Error(name, message) == [type |-> "error", name |-> name, message |-> message]

Has(obj, field) == field \in DOMAIN obj /\ Truthy(obj[field])

----------------------------------------------------------------------------
(* Request data, JSON.stringify and FormData *)

\* A field value: a string, an array of strings, or an object that refers
\* back to the data object (which JSON.stringify cannot serialize).
StringValue(s) == [kind |-> "string", items |-> <<s>>]
ArrayValue(prefix, n) == [kind |-> "array", items |-> [i \in 1..n |-> prefix \o ToString(i)]]
CycleValue == [kind |-> "cycle", items |-> <<>>]

Field(key, value) == [key |-> key, value |-> value]
Object(fields) == [type |-> "object", fields |-> fields]

Keys(obj) == [i \in 1..Len(obj.fields) |-> obj.fields[i].key]

\* "key" in obj
In(key, obj) == \E i \in 1..Len(obj.fields) : obj.fields[i].key = key

\* obj[key], for a key the object has
Get(obj, key) == obj.fields[CHOOSE i \in 1..Len(obj.fields) : obj.fields[i].key = key].value

IsArray(value) == value.kind = "array"

Quote(s) == "\"" \o s \o "\""

RECURSIVE Join(_, _)
Join(texts, sep) ==
    IF texts = <<>> THEN ""
    ELSE IF Len(texts) = 1 THEN texts[1]
    ELSE texts[1] \o sep \o Join(Tail(texts), sep)

\* JSON text of a field value
StringifyValue(value) ==
    IF value.kind = "array"
    THEN "[" \o Join([i \in 1..Len(value.items) |-> Quote(value.items[i])], ",") \o "]"
    ELSE Quote(value.items[1])

Serializable(obj) == \A i \in 1..Len(obj.fields) : obj.fields[i].value.kind # "cycle"

\* JSON.stringify(data) of a serializable object
JSONstringify(obj) ==
    "{" \o Join([i \in 1..Len(obj.fields) |->
                    Quote(obj.fields[i].key) \o ":" \o StringifyValue(obj.fields[i].value)],
                ",") \o "}"

\* String(value), as FormData.append converts a value that is no Blob
ToStr(value) ==
    CASE value.kind = "string" -> value.items[1]
      [] value.kind = "array"  -> Join(value.items, ",")
      [] OTHER                 -> "[object Object]"

FormEntry(name, value) == [name |-> name, value |-> value]

RECURSIVE AppendItemsNoSuffix(_, _, _, _)
AppendItemsNoSuffix(form, key, items, i) ==
    IF i > Len(items) THEN form
    ELSE AppendItemsNoSuffix(Append(form, FormEntry(key, items[i])), key, items, i + 1)

\* the inner loop: for (let i = 0; i < data[key].length; i++) form.append(key + "[]", data[key][i])
RECURSIVE AppendItems(_, _, _, _)
AppendItems(form, key, items, i) ==
    IF i > Len(items) THEN form
    ELSE AppendItems(Append(form, FormEntry(key \o "[]", items[i])), key, items, i + 1)

\* the outer loop over Object.keys(data), from index i
RECURSIVE AppendFields(_, _, _)
AppendFields(form, obj, i) ==
    IF i > Len(Keys(obj)) THEN form
    ELSE LET key == Keys(obj)[i]
             value == Get(obj, key)
         IN  IF IsArray(value)
             THEN AppendFields(AppendItems(form, key, value.items, 1), obj, i + 1)
             ELSE AppendFields(Append(form, FormEntry(key, ToStr(value))), obj, i + 1)

HasAttachments(obj) == In("attachments", obj) /\ IsArray(Get(obj, "attachments"))

NoBody == [kind |-> "none"]
JsonBody(text) == [kind |-> "json", text |-> text]
FormBody(form) == [kind |-> "form", form |-> form]

\* lines 136-165: the options object; thrown is the exception of JSON.stringify
BuildOptions(m, a, q, d) ==
    LET base == [method |-> m,
                 headers |-> [ContentType |-> "application/json", Authorization |-> a],
                 query |-> q,
                 body |-> NoBody]
    IN  IF ~Truthy(d) THEN [options |-> base, thrown |-> NoThrow]
        ELSE IF HasAttachments(d)
        THEN [options |-> [base EXCEPT !.headers.ContentType = "multipart/form-data",
                                        !.body = FormBody(AppendFields(<<>>, d, 1))],
              thrown |-> NoThrow]
        ELSE IF Serializable(d)
        THEN [options |-> [base EXCEPT !.body = JsonBody(JSONstringify(d))], thrown |-> NoThrow]
        ELSE [options |-> base,
              thrown |-> Error("TypeError", "Converting circular structure to JSON")]

----------------------------------------------------------------------------
(* URL *)

\* A url is held by its parts: scheme, host, path.  new URL(url) throws a
\* TypeError for a url without a scheme; pathname is "/" for an empty path.
Url(scheme, host, path) == [scheme |-> scheme, host |-> host, path |-> path]

ValidUrl(u) == u.scheme # "" /\ u.host # ""

Pathname(u) == IF u.path = "" THEN "/" ELSE u.path

----------------------------------------------------------------------------
(* Responses and JSON.parse *)

Num(n) == [type |-> "number", val |-> n]

Stream(text) == [type |-> "object", text |-> text]

Headers(link, xRequestId) == [type |-> "object", link |-> link, xRequestId |-> xRequestId]

Response(statusCode, headers, body) ==
    [type |-> "object", statusCode |-> statusCode, headers |-> headers, body |-> body]

\* the texts JSON.parse accepts, among the body texts of the model
JsonTexts == {"null", "{\"id\":1}", "{\"description\":\"Validation failed\"}"}

\* JSON.parse(text) of an accepted text; body.json() rejects with a
\* SyntaxError for any other text, the empty one included
JSONparse(text) ==
    CASE text = "null" -> Null
      [] text = "{\"id\":1}" -> [type |-> "object", id |-> Num(1)]
      [] text = "{\"description\":\"Validation failed\"}" ->
             [type |-> "object", description |-> Str("Validation failed")]

CanParse(text) == text \in JsonTexts

SyntaxError == Error("SyntaxError", "Unexpected token in JSON")

\* v[p] of an object: undefined for a property the object lacks
GetProp(v, p) == IF p \in DOMAIN v THEN v[p] ELSE Undefined

----------------------------------------------------------------------------
(* FreshdeskError and createResponseHandler *)

\* lines 39-54
FreshdeskError(message, d, res, request) ==
    [type |-> "error",
     name |-> "FreshdeskError",
     message |-> IF Truthy(message) THEN message.val ELSE "Error in Freshdesk's client API",
     data |-> d,
     status |-> res.statusCode,
     apiTarget |-> request.method \o " " \o request.path,
     requestId |-> res.headers.xRequestId]

ExtraNeverPaged(res) ==
    [pageIsLast |-> TRUE,
     requestId |-> IF Truthy(res) /\ Has(res, "headers") /\ TypeOf(res.headers.xRequestId) = "string"
                   THEN res.headers.xRequestId ELSE Str(""),
     headersLink |-> Undefined]

\* lines 63-90: the metadata object
Extra(res) ==
    LET linked == Truthy(res) /\ Has(res, "headers") /\ TypeOf(res.headers.link) = "string"
        identified == Truthy(res) /\ Has(res, "headers")
                        /\ TypeOf(res.headers.xRequestId) = "string"
    IN  [pageIsLast |-> ~linked,
         requestId |-> IF identified THEN res.headers.xRequestId ELSE Str(""),
         headersLink |-> IF linked THEN res.headers.link ELSE Undefined]

\* the arguments of one invocation of cb
CbError(error) == [argc |-> 1, err |-> error]
CbSuccess(body, extra) == [argc |-> 3, err |-> Null, body |-> body, extra |-> extra]

Delivers(cbArgs) == [deliver |-> cbArgs, thrown |-> NoThrow]
Throws(error) == [deliver |-> NoCall, thrown |-> error]

\* lines 57-130: the function createResponseHandler(cb) returns, up to its
\* call of cb: the arguments it calls cb with, or the exception it throws
\* before it calls cb
createResponseHandler(error, res, body, request) ==
    IF Truthy(error) THEN Delivers(CbError(error))
    ELSE CASE res.statusCode \in {200, 201} -> Delivers(CbSuccess(body, Extra(res)))
           [] res.statusCode = 204 -> Delivers(CbSuccess(Null, Extra(res)))
           [] res.statusCode = 404 ->
                  Delivers(CbError(FreshdeskError(Str("The requested entity was not found"),
                                                  body, res, request)))
           [] OTHER ->
                  IF TypeOf(body) \in {"null", "undefined"}
                  THEN Throws(Error("TypeError", "Cannot read properties of null (reading 'description')"))
                  ELSE Delivers(CbError(FreshdeskError(GetProp(body, "description"),
                                                       body, res, request)))

\* cb, on its n-th invocation: what it throws
Callback(n) == IF n \in cbThrowsOn THEN cbException ELSE NoThrow

\* One call createResponseHandler(cb)(error, res, body, request) from
\* makeRequest, in the state st = [calls, handled]: the handler's invocation
\* is logged, cb is invoked with what the handler delivers, and thrown is
\* the exception that leaves the call (the handler's or the callback's).
RunHandler(st, error, res, body, request) ==
    LET h == createResponseHandler(error, res, body, request)
        entry == [error |-> error, response |-> res, body |-> body,
                  deliver |-> h.deliver, thrown |-> h.thrown]
        calls2 == IF h.deliver = NoCall THEN st.calls ELSE Append(st.calls, h.deliver)
    IN  [calls |-> calls2,
         handled |-> Append(st.handled, entry),
         thrown |-> IF h.thrown # NoThrow THEN h.thrown
                    ELSE Callback(Len(calls2))]

----------------------------------------------------------------------------
(* makeRequest *)

CatchRethrows(st, error) ==
    IF Has(error, "response")
    THEN RunHandler(st, Null, error.response, Null, req)
    ELSE IF Has(error, "request")
    THEN RunHandler(st, Error("Error", error.message), error.request, Null, req)
    ELSE [calls |-> st.calls, handled |-> st.handled, thrown |-> error]

\* lines 178-204: the catch block, entered with the exception error in the
\* state st = [calls, handled].  thrown is the exception that leaves the
\* block, and so rejects makeRequest's promise.  The exceptions of the model
\* that carry a response or a request carry it without a body stream, so
\* `error.response.body ? await ... : null` is null and the block runs
\* without awaiting.
Catch(st, error) ==
    IF Has(error, "response")
    THEN RunHandler(st, Null, error.response, Null, req)
    ELSE IF Has(error, "request")
    THEN RunHandler(st, Error("Error", error.message), error.request, Null, req)
    ELSE RunHandler(st, error, req, Undefined, req)

\* lines 177-204: the handler's call in the try block with the parsed body,
\* and the catch block when the handler or the callback throws
TryHandle(st, res, body) ==
    LET r == RunHandler(st, Null, res, body, req)
    IN  IF r.thrown = NoThrow THEN r
        ELSE Catch([calls |-> r.calls, handled |-> r.handled], r.thrown)

Finish(r) ==
    /\ calls' = r.calls
    /\ handled' = r.handled
    /\ raised' = r.thrown
    /\ pc' = "done"

Fail(error) ==
    /\ raised' = error
    /\ pc' = "done"
    /\ UNCHANGED <<calls, handled>>

\* lines 167-172
Req(opts, u) ==
    [type |-> "object", method |-> opts.method, headers |-> opts.headers,
     query |-> opts.query, body |-> opts.body, url |-> u, path |-> Pathname(u)]

\* lines 134-175: the synchronous part of makeRequest up to its first
\* await: the options, the req object and the call request(url, options).
\* An exception here is outside the try block: it rejects the promise.
MakeRequestStart ==
    /\ pc = "start"
    /\ LET b == BuildOptions(method, auth, qs, data)
       IN  /\ options' = b.options
           /\ IF b.thrown # NoThrow
              THEN Fail(b.thrown) /\ UNCHANGED <<req, sent>>
              ELSE IF ~ValidUrl(url)
              THEN Fail(Error("TypeError", "Invalid URL")) /\ UNCHANGED <<req, sent>>
              ELSE /\ req' = Req(b.options, url)
                   /\ sent' = sent + 1
                   /\ pc' = "awaitRequest"
                   /\ UNCHANGED <<calls, handled, raised>>
    /\ UNCHANGED <<args, cbThrowsOn, cbException, response, transportError>>

\* the errors undici's request rejects with: none has a response or a
\* request property
TransportErrors ==
    {Error("Error", "connect ECONNREFUSED"), Error("ConnectTimeoutError", "Connect Timeout Error")}

Statuses == {200, 201, 204, 404, 409, 500}

HeaderValues(s) == {Undefined, Str(s), StrArray(s)}

\* a response's body: undici gives every response a body stream, an empty
\* one for a response without content; the stream's text is one of these
BodyTexts == {"", "<html>Bad Gateway</html>"} \cup JsonTexts

Bodies == {Stream(t) : t \in BodyTexts}

Responses ==
    {Response(s, Headers(l, x), b) :
        s \in Statuses,
        l \in HeaderValues("<https://acme.freshdesk.com/api/v2/tickets?page=2>; rel=\"next\""),
        x \in HeaderValues("abc123"),
        b \in Bodies}

RequestRejectsRetry ==
    /\ pc = "awaitRequest"
    /\ sent' = sent + 1
    /\ UNCHANGED <<pc, args, cbThrowsOn, cbException, options, req, response,
                   transportError, handled, calls, raised>>

\* lines 175, 178-204: await request(url, options) rejects
RequestRejects ==
    /\ pc = "awaitRequest"
    /\ \E e \in TransportErrors :
          /\ transportError' = e
          /\ Finish(Catch([calls |-> calls, handled |-> handled], e))
    /\ UNCHANGED <<args, cbThrowsOn, cbException, options, req, sent, response>>

\* lines 175-177: await request(url, options) resolves with a response;
\* with a body stream makeRequest awaits body.json(), without one (which no
\* response of undici is) it calls the handler with a null body at once
RequestResolves ==
    /\ pc = "awaitRequest"
    /\ \E res \in Responses :
          /\ response' = res
          /\ IF Truthy(res.body)
             THEN pc' = "awaitJson" /\ UNCHANGED <<calls, handled, raised>>
             ELSE Finish(TryHandle([calls |-> calls, handled |-> handled], res, Null))
    /\ UNCHANGED <<args, cbThrowsOn, cbException, options, req, sent, transportError>>

\* lines 176-177: await response.body.json() resolves with the parsed body
JsonResolves ==
    /\ pc = "awaitJson"
    /\ CanParse(response.body.text)
    /\ Finish(TryHandle([calls |-> calls, handled |-> handled], response,
                        JSONparse(response.body.text)))
    /\ UNCHANGED <<args, cbThrowsOn, cbException, options, req, sent, response, transportError>>

\* lines 176, 178-204: await response.body.json() rejects
JsonRejects ==
    /\ pc = "awaitJson"
    /\ ~CanParse(response.body.text)
    /\ Finish(Catch([calls |-> calls, handled |-> handled], SyntaxError))
    /\ UNCHANGED <<args, cbThrowsOn, cbException, options, req, sent, response, transportError>>

Next ==
    \/ MakeRequestStart
    \/ RequestRejects
    \/ RequestResolves
    \/ JsonResolves
    \/ JsonRejects

----------------------------------------------------------------------------
(* Arguments *)

Methods == {"GET", "POST"}
Auths == {"Basic dG9rZW46WA==", "Basic b3RoZXI6WA=="}
Urls == {Url("https:", "acme.freshdesk.com", "/api/v2/tickets"),
         Url("https:", "acme.freshdesk.com", ""),
         Url("", "", "/api/v2/tickets")}
Queries == {Undefined, Str("page=2")}

Subject == Field("subject", StringValue("Hi"))

\* the optional second and third fields of a data object
TagsChoices == {<<>>} \cup {<<Field("tags", ArrayValue("tag", n))>> : n \in 0..MaxLen}
AttachmentsChoices ==
    {<<>>, <<Field("attachments", StringValue("none"))>>}
      \cup {<<Field("attachments", ArrayValue("file", n))>> : n \in 0..MaxLen}

DataObjects == {Object(<<Subject>> \o t \o a) : t \in TagsChoices, a \in AttachmentsChoices}

Circular == Object(<<Subject, Field("self", CycleValue)>>)

AllData == {Undefined, Null, Object(<<>>), Circular} \cup DataObjects

SomeData == {Undefined,
             Object(<<Subject>>),
             Object(<<Subject, Field("attachments", ArrayValue("file", 1))>>),
             Circular}

\* what the callback throws: a plain Error, or an Error that carries a
\* response or a request
CbExceptions ==
    {Error("Error", "callback failed"),
     [type |-> "error", name |-> "Error", message |-> "callback failed",
      response |-> Response(204, Headers(Undefined, Undefined), Null)],
     [type |-> "error", name |-> "Error", message |-> "callback failed",
      request |-> [type |-> "object", body |-> Null]]}

WellBehaved == [throwsOn |-> {}, exception |-> NoThrow]

CbBehaviours ==
    {WellBehaved} \cup
    {[throwsOn |-> S, exception |-> e] : S \in (SUBSET (1..MaxCalls)) \ {{}}, e \in CbExceptions}

InitWith(DataSet, Behaviours) ==
    /\ pc = "start"
    /\ method \in Methods
    /\ auth \in Auths
    /\ url \in Urls
    /\ qs \in Queries
    /\ data \in DataSet
    /\ \E b \in Behaviours : cbThrowsOn = b.throwsOn /\ cbException = b.exception
    /\ options = Undefined
    /\ req = Undefined
    /\ sent = 0
    /\ response = Undefined
    /\ transportError = Undefined
    /\ handled = <<>>
    /\ calls = <<>>
    /\ raised = NoThrow

\* calls of makeRequest with any behaviour of the callback
Init == InitWith(SomeData, CbBehaviours)

Spec == Init /\ [][Next]_vars

\* calls of makeRequest with any request data and a callback that returns
InitCbReturns == InitWith(AllData, {WellBehaved})

SpecCbReturns == InitCbReturns /\ [][Next]_vars

----------------------------------------------------------------------------
(* Properties *)

Done == pc = "done"

GotResponse == TypeOf(response) = "object"

TransportFailed == TypeOf(transportError) = "error"

IsSuccess(c) == c.argc = 3 /\ c.err = Null

IsProtocolError(c) == c.argc = 1 /\ c.err.name = "FreshdeskError"

IsNotFound(c) ==
    /\ IsProtocolError(c)
    /\ c.err.message = "The requested entity was not found"
    /\ c.err.status = 404

\* the handler's invocations with no transport error
Classified == {i \in 1..Len(handled) : handled[i].error = Null}

\* C1: every status and parsed body handed to the response handler with no
\* error is classified by the status table: 200 and 201 give success with
\* the parsed body, 204 success with a null body, 404 the "not found"
\* FreshdeskError, every other status a FreshdeskError whose message is
\* body.description and which carries the body, the status and method+path.
C1_StatusTable ==
    \A i \in Classified :
        LET h == handled[i]
            c == h.deliver
            status == h.response.statusCode
        IN  CASE status \in {200, 201} -> IsSuccess(c) /\ c.body = h.body
              [] status = 204 -> IsSuccess(c) /\ c.body = Null
              [] status = 404 -> IsNotFound(c)
              [] OTHER ->
                    /\ IsProtocolError(c)
                    /\ Str(c.err.message) = GetProp(h.body, "description")
                    /\ c.err.data = h.body
                    /\ c.err.status = status
                    /\ c.err.apiTarget = method \o " " \o Pathname(url)

\* C2: a response with status 404 always gives the "not found"
\* FreshdeskError as the outcome, whatever its body: valid JSON, empty or
\* absent, or unparseable.
C2_NotFoundWhateverBody ==
    (Done /\ GotResponse /\ response.statusCode = 404)
        => (calls # <<>> /\ IsNotFound(calls[1]))

\* C3: a malformed or absent response body is tolerated: the call is still
\* classified by its status, success for 200, 201 and 204 and a
\* FreshdeskError for any other status, never another kind of error.
C3_BodyTolerated ==
    (Done /\ GotResponse /\ (~Truthy(response.body) \/ ~CanParse(response.body.text)))
        => /\ calls # <<>>
           /\ IF response.statusCode \in {200, 201, 204}
              THEN IsSuccess(calls[1])
              ELSE IsProtocolError(calls[1])

\* C4 as stated: when the transport fails, the callback gets the error as
\* its only argument, no success outcome is delivered, and makeRequest does
\* not throw or reject.
C4_NeverRejects ==
    TransportFailed
        => /\ calls # <<>>
           /\ calls[1] = CbError(transportError)
           /\ \A i \in 1..Len(calls) : ~IsSuccess(calls[i])
           /\ raised = NoThrow

\* C4 as amended: when the transport fails, the callback is invoked once,
\* with the transport error as its only argument, and makeRequest rejects
\* only with what that invocation of the callback throws.
C4_TransportFailure ==
    TransportFailed
        => /\ Done
           /\ calls = <<CbError(transportError)>>
           /\ raised = Callback(1)

C4_Witness ==
    TransportFailed /\ calls = <<CbError(transportError)>> /\ raised = NoThrow

\* C5: every invocation of makeRequest delivers an outcome to the callback,
\* whatever fails while building, sending, parsing or classifying: a
\* finished call has invoked the callback.
C5_OutcomeDelivered == Done => calls # <<>>

\* C6: each call produces at most one outcome: the callback is never
\* invoked a second time, also when the handler or the callback throws.
C6_AtMostOneOutcome == Len(calls) <= 1

\* C7 as stated: each makeRequest call issues exactly one HTTP request.
C7_ExactlyOneRequest == Done => sent = 1

\* C7 as amended: a call issues at most one HTTP request on every path, and
\* exactly one unless building the request throws (a url that does not
\* parse, a body that does not serialize), when it issues none.
C7_AtMostOneRequest ==
    /\ sent <= 1
    /\ pc # "start" =>
          (sent = 1 <=> /\ ValidUrl(url)
                        /\ Truthy(data) => (HasAttachments(data) \/ Serializable(data)))

C7_Witness == Done /\ sent = 1 /\ Len(calls) = 2

\* C8: on every success outcome pageIsLast is false exactly when the
\* response's Link header is a string, whatever the status and the body.
C8_PageIsLast ==
    \A i \in Classified :
        IsSuccess(handled[i].deliver)
            => (handled[i].deliver.extra.pageIsLast
                    <=> TypeOf(handled[i].response.headers.link) # "string")

C8_Witness ==
    \E i \in Classified :
        /\ IsSuccess(handled[i].deliver)
        /\ TypeOf(handled[i].response.headers.link) = "string"
        /\ ~handled[i].deliver.extra.pageIsLast

\* C9: a response whose x-request-id header is the string v gives an outcome
\* that carries requestId = v: in the metadata of the success for 200, 201
\* and 204, in the FreshdeskError for 404 and for every other status.
C9_RequestId ==
    (Done /\ GotResponse /\ TypeOf(response.headers.xRequestId) = "string")
        => /\ calls # <<>>
           /\ IF response.statusCode \in {200, 201, 204}
              THEN /\ IsSuccess(calls[1])
                   /\ calls[1].extra.requestId = response.headers.xRequestId
              ELSE /\ IsProtocolError(calls[1])
                   /\ calls[1].err.requestId = response.headers.xRequestId

\* number of form entries of the first k fields of obj
RECURSIVE EntriesBefore(_, _)
EntriesBefore(obj, k) ==
    IF k = 0 THEN 0
    ELSE EntriesBefore(obj, k - 1)
            + (IF IsArray(obj.fields[k].value) THEN Len(obj.fields[k].value.items) ELSE 1)

\* C10: the request's Authorization header is auth; data with an
\* attachments list goes as multipart/form-data, each list field appended
\* element by element under key[] and every other field once under its
\* key; any other data goes as application/json with the JSON text of data
\* as body, and no body when data is absent.
C10_Encoding ==
    sent = 1 =>
        /\ options.headers.Authorization = auth
        /\ IF Truthy(data) /\ HasAttachments(data)
           THEN /\ options.headers.ContentType = "multipart/form-data"
                /\ options.body.kind = "form"
                /\ Len(options.body.form) = EntriesBefore(data, Len(data.fields))
                /\ \A k \in 1..Len(data.fields) :
                      LET f == data.fields[k]
                          at == EntriesBefore(data, k - 1)
                      IN  IF IsArray(f.value)
                          THEN \A j \in 1..Len(f.value.items) :
                                  options.body.form[at + j] =
                                      [name |-> f.key \o "[]", value |-> f.value.items[j]]
                          ELSE options.body.form[at + 1] =
                                  [name |-> f.key, value |-> f.value.items[1]]
           ELSE /\ options.headers.ContentType = "application/json"
                /\ IF Truthy(data)
                   THEN /\ options.body.kind = "json"
                        /\ options.body.text = JSONstringify(data)
                        /\ data = Object(<<Subject>>) => options.body.text = "{\"subject\":\"Hi\"}"
                   ELSE options.body = NoBody

C10_Witness ==
    /\ sent = 1
    /\ Truthy(data)
    /\ HasAttachments(data)
    /\ Len(Get(data, "attachments").items) = MaxLen
    /\ In("tags", data)
    /\ Len(Get(data, "tags").items) = MaxLen
    /\ options.body.kind = "form"

====
